---- MODULE Spec2Model ----
(***************************************************************************)
(* Model of src/src/index.ts: a script that logs in to a web application,  *)
(* fetches the user list, scrapes the current user from the rendered       *)
(* settings page and writes users.json.  The model covers a sequence of    *)
(* runs of main() sharing the two files on disk (cookies.json and          *)
(* users.json).  Every await of the script is one step; the answers of the *)
(* remote site, the browser and the file system are inputs chosen with \E. *)
(***************************************************************************)
EXTENDS Integers, Sequences, FiniteSets, TLC

\* ------------------------------------------------------------------ bounds
\* number of runs of main() in one behaviour
MaxRuns == 2
\* the clock (in seconds) takes the values 0..MaxTime
MaxTime == 1
\* longest list the users endpoint returns
MaxList == 2

\* ---------------------------------------------------------------- strings
\* A string is the tuple of its characters, so that String.includes is
\* computed and not assumed.
SessionWord == <<"s", "e", "s", "s", "i", "o", "n">>
NameSession == SessionWord
NameConnectSid == <<"a", "_">> \o SessionWord \o <<"_", "i", "d">>
NameUpper == <<"S", "E", "S", "S", "I", "O", "N">>
NameCsrf == <<"c", "s", "r", "f">>

\* a mutation of includes: the whole name has to be the word
IncludesExact(hay, needle) == hay = needle

\* String.prototype.includes
Includes(hay, needle) ==
    \E i \in 1..(Len(hay) - Len(needle) + 1) :
        SubSeq(hay, i, i + Len(needle) - 1) = needle

\* ---------------------------------------------------------------- cookies
\* tough-cookie's Cookie, reduced to the fields the script reads: expires is
\* "Infinity" (inf) or a date (at, in seconds).
Never == [inf |-> TRUE, at |-> 0]
At(t) == [inf |-> FALSE, at |-> t]
Cookie(k, p, e) == [key |-> k, path |-> p, expires |-> e]

\* a mutation of the expiry test: the comparison the wrong way round
ExpiredInverted(c, t) == ~c.expires.inf /\ c.expires.at > t

\* Cookie.expiryTime() <= now
Expired(c, t) == ~c.expires.inf /\ c.expires.at <= t

\* a mutation of the path test: the path of the users endpoint is taken
PathMatchesApi(c) == c.path = "/api"

\* pathMatch of the request path "/" of config.domain against the cookie's
PathMatchesRoot(c) == c.path = "/"

\* CookieJar.getCookies(config.domain): the cookies sent to the domain root,
\* expired ones left out
getCookies(jar, t) == {c \in jar : PathMatchesRoot(c) /\ ~Expired(c, t)}

\* ... and, as it goes, getCookies removes from the store the expired
\* cookies among those that match the request
ExpireSweep(jar, t) == {c \in jar : ~(PathMatchesRoot(c) /\ Expired(c, t))}

\* cookies.find((c) => c.key?.includes("session"))
SessionCookies(cookies) == {c \in cookies : Includes(c.key, SessionWord)}

\* CookieJar.setCookie stores by (domain, path, key): a cookie replaces the
\* one with the same path and key
PutCookie(jar, c) ==
    {d \in jar : ~(d.key = c.key /\ d.path = c.path)} \cup {c}

\* ------------------------------------------------------------ session file
NoFile == [kind |-> "absent", cookies |-> {}]
BadFile == [kind |-> "malformed", cookies |-> {}]

\* JSON.stringify(cookieJar.toJSON()): every cookie of the store
toJSON(jar) == [kind |-> "jar", cookies |-> jar]

\* readFile + CookieJar.fromJSON; either throws and the catch keeps the jar
fromJSON(file, jar) == IF file.kind = "jar" THEN file.cookies ELSE jar

\* the cookies a session file left by an earlier run may hold
FileCookies ==
    { Cookie(NameSession, "/", Never),
      Cookie(NameConnectSid, "/", At(1)),
      Cookie(NameSession, "/api", Never),
      Cookie(NameUpper, "/", Never),
      Cookie(NameCsrf, "/", Never) }

InitialFiles == {NoFile, BadFile} \cup {toJSON({c}) : c \in FileCookies}

\* ------------------------------------------------------------- login page
\* the login page's markup: what $('input[name="nonce"]') finds
LoginPages == {"no_input", "no_value_attr", "empty_value", "nonce_value"}

\* cheerio .val(): undefined without the element or its value attribute
NonceVal(page) ==
    CASE page = "no_input" -> [defined |-> FALSE, str |-> ""]
      [] page = "no_value_attr" -> [defined |-> FALSE, str |-> ""]
      [] page = "empty_value" -> [defined |-> TRUE, str |-> ""]
      [] page = "nonce_value" -> [defined |-> TRUE, str |-> "n0nce"]

\* a mutation of the nonce test: the nonce is tested for being empty and
\* undefined goes through
NonceIsStringLoose(page) == ~(NonceVal(page).defined /\ NonceVal(page).str = "")

\* typeof nonce === "string"
NonceIsString(page) == NonceVal(page).defined

\* ----------------------------------------------------------- login submit
\* a Set-Cookie header: maxAge 0 stands for no Max-Age, path "" for no Path
Header(k, p, a) == [ok |-> TRUE, key |-> k, path |-> p, maxAge |-> a]
BadHeader == [ok |-> FALSE, key |-> <<>>, path |-> "", maxAge |-> 0]

SetCookieLists ==
    { <<>>,
      <<Header(NameSession, "", 0)>>,
      <<Header(NameConnectSid, "", 1)>>,
      <<Header(NameCsrf, "", 0)>>,
      <<Header(NameCsrf, "", 0), Header(NameSession, "/api", 0)>>,
      <<Header(NameSession, "", 0), BadHeader>> }

LoginStatuses == {200, 302, 401}

\* Cookie.parse of a header received at time t from config.domain
ParseCookie(h, t) ==
    Cookie(h.key,
           IF h.path = "" THEN "/" ELSE h.path,
           IF h.maxAge = 0 THEN Never ELSE At(t + h.maxAge))

\* a mutation of the login test: the redirect alone is enough
LoginAcceptedStatusOnly(status, hs) == status = 302

\* !(authRes.status !== 302 || !cookieHeaders.length)
LoginAccepted(status, hs) == status = 302 /\ Len(hs) # 0

\* for (const cookie of cookieHeaders) await cookieJar.setCookie(...):
\* the jar after the loop, and whether a setCookie threw (a header that does
\* not parse); the cookies set before the throw stay in the jar
RECURSIVE SetCookies(_, _, _)
SetCookies(jar, hs, t) ==
    IF hs = <<>> THEN [jar |-> jar, threw |-> FALSE]
    ELSE IF ~Head(hs).ok THEN [jar |-> jar, threw |-> TRUE]
    ELSE SetCookies(PutCookie(jar, ParseCookie(Head(hs), t)), Tail(hs), t)

\* ---------------------------------------------------------- users endpoint
User(i, f, l, e) == [id |-> i, firstName |-> f, lastName |-> l, email |-> e]
UserA == User("1", "A", "B", "a@b.com")
UserJohn == User("42", "John", "Doe", "john@doe.com")

\* the users the endpoint knows, in its order; a response lists a run of them
Roster == <<UserA, UserJohn, UserA>>
UsersLists ==
    {<<>>} \cup
    {SubSeq(Roster, i, j) : i \in 1..Len(Roster), j \in 1..Len(Roster)}

\* the body of the users response: text that is no JSON, JSON that is no
\* array (an object), or an array of users
UsersBodies ==
    { [kind |-> "malformed", list |-> <<>>], [kind |-> "object", list |-> <<>>] }
    \cup { [kind |-> "array", list |-> l] :
                l \in {x \in UsersLists : Len(x) <= MaxList} }

UsersStatuses == {200, 302, 401}

\* a mutation of Response.ok: every answer counts as a success
ResponseOkAlways(status) == TRUE

\* Response.ok
ResponseOk(status) == status >= 200 /\ status <= 299

\* ----------------------------------------------------------- settings page
\* the rendered document: its forms in document order, each with or without
\* the class space-y-4, each input with or without a value attribute
Val(s) == [defined |-> TRUE, str |-> s]
NoVal == [defined |-> FALSE, str |-> ""]
Form(c, ins) == [spaceY4 |-> c, inputs |-> ins]
JohnInputs == <<Val("42"), Val("John"), Val("Doe"), Val("john@doe.com")>>

PageEmpty == <<>>
PageJohn == << Form(TRUE, JohnInputs \o <<Val("x")>>) >>
PageOtherForm == << Form(FALSE, JohnInputs) >>
PageSearchFirst == << Form(FALSE, <<Val("q")>>), Form(TRUE, <<NoVal, Val("Doe")>>) >>
SettingsPages == {PageEmpty, PageJohn, PageOtherForm, PageSearchFirst}

\* page.waitForSelector("form.space-y-4 input") finds an element
FormRendered(page) ==
    \E i \in 1..Len(page) : page[i].spaceY4 /\ Len(page[i].inputs) > 0

\* $("form input"): the inputs of every form, in document order
RECURSIVE FormInputs(_)
FormInputs(page) ==
    IF page = <<>> THEN <<>> ELSE Head(page).inputs \o FormInputs(Tail(page))

\* inputs.eq(i).val() || ""   (i counted from 0)
ValOrEmpty(inputs, i) ==
    IF i + 1 <= Len(inputs) /\ inputs[i + 1].defined THEN inputs[i + 1].str ELSE ""

\* the currentUser object of fetchData
CurrentUser(page) ==
    LET inputs == FormInputs(page)
    IN User(ValOrEmpty(inputs, 0), ValOrEmpty(inputs, 1),
            ValOrEmpty(inputs, 2), ValOrEmpty(inputs, 3))

\* a mutation of the merge: a current user already in the list is not added
MergeDedup(list, cur) ==
    IF \E i \in 1..Len(list) : list[i] = cur THEN list ELSE Append(list, cur)

\* [...userList, currentUser]
Merge(list, cur) == list \o <<cur>>

\* the CookieParam built from a tough-cookie cookie: expires in seconds,
\* -1 for "Infinity"
ToPuppeteer(c) ==
    [name |-> c.key, path |-> c.path,
     expires |-> IF c.expires.inf THEN -1 ELSE (c.expires.at * 1000) \div 1000]

\* ------------------------------------------------------------ output file
NoOutput == [kind |-> "absent", data |-> <<>>]

\* JSON.stringify(allData, null, 2)
Stringify(data) == [kind |-> "json", data |-> data]

InitialOutputs == {NoOutput, Stringify(<<UserA>>)}

\* a mutation of the exit code: a caught error exits like a success
ExitCodeAlwaysZero(threw) == 0

\* process.exit(1) in the catch of main, 0 when main returns
ExitCode(threw) == IF threw THEN 1 ELSE 0

\* a mutation of the branch of main: the test the wrong way round
NeedsLoginInverted(valid) == valid

\* if (!(await hasValidSession())) in main
NeedsLogin(valid) == ~valid

\* ------------------------------------------------------------------ state
VARIABLES
    pc,            \* where main() is: "idle" before a run, "exited" after it
    runs,          \* runs of main() started so far
    now,           \* the clock, in seconds
    cookieFile,    \* cookies.json on disk
    outputFile,    \* users.json on disk
    cookieJar,     \* the module-level cookieJar
    loginPage,     \* the markup the login GET returned
    authRes,       \* status and Set-Cookie headers of the login POST
    usersResponse, \* status and body of the users POST
    browser,       \* "none", "open" or "closed"
    browserCookies,\* the cookies set in the page
    settingsPage,  \* the rendered settings document
    allData,       \* what fetchData returned
    exitCode,      \* the process's exit code, -1 while it runs
    events,        \* the requests and writes of this run, in order
    reused,        \* hasValidSession() answered true in this run
    fileAtStart,   \* cookies.json when this run started
    outputAtStart, \* users.json when this run started
    jarAtAuth,     \* cookieJar when authenticate() was called
    coldRef,       \* upstream data of the cold run that wrote users.json
    stale          \* the session on disk was refused by the users endpoint

vars == << pc, runs, now, cookieFile, outputFile, cookieJar, loginPage, authRes,
           usersResponse, browser, browserCookies, settingsPage, allData,
           exitCode, events, reused, fileAtStart, outputAtStart, jarAtAuth,
           coldRef, stale >>

NoAuthRes == [status |-> 0, headers |-> <<>>]
NoUsersResponse == [status |-> 0, body |-> [kind |-> "none", list |-> <<>>]]
NoColdRef == [set |-> FALSE, list |-> <<>>, page |-> <<>>]

Init ==
    /\ pc = "idle"
    /\ runs = 0
    /\ now = 0
    /\ cookieFile \in InitialFiles
    /\ outputFile \in InitialOutputs
    /\ cookieJar = {}
    /\ loginPage = "none"
    /\ authRes = NoAuthRes
    /\ usersResponse = NoUsersResponse
    /\ browser = "none"
    /\ browserCookies = {}
    /\ settingsPage = <<>>
    /\ allData = <<>>
    /\ exitCode = -1
    /\ events = <<>>
    /\ reused = FALSE
    /\ fileAtStart = cookieFile
    /\ outputAtStart = outputFile
    /\ jarAtAuth = {}
    /\ coldRef = NoColdRef
    /\ stale = FALSE

\* the catch of main: console.error, process.exit(1)
Catch ==
    /\ pc' = "exited"
    /\ exitCode' = ExitCode(TRUE)

\* the process is started, some time after the run before it ended: the
\* module is loaded (let cookieJar = new CookieJar()) and main() is called
main_start ==
    /\ pc \in {"idle", "exited"}
    /\ runs < MaxRuns
    /\ runs' = runs + 1
    /\ \E t \in now..MaxTime : now' = t
    /\ pc' = "loadCookies"
    /\ cookieJar' = {}
    /\ loginPage' = "none"
    /\ authRes' = NoAuthRes
    /\ usersResponse' = NoUsersResponse
    /\ browser' = "none"
    /\ browserCookies' = {}
    /\ settingsPage' = <<>>
    /\ allData' = <<>>
    /\ exitCode' = -1
    /\ events' = <<>>
    /\ reused' = FALSE
    /\ fileAtStart' = cookieFile
    /\ outputAtStart' = outputFile
    /\ jarAtAuth' = {}
    /\ coldRef' = IF exitCode # 0 THEN coldRef
                  ELSE IF reused THEN NoColdRef
                  ELSE [set |-> TRUE, list |-> usersResponse.body.list,
                        page |-> settingsPage]
    /\ UNCHANGED << cookieFile, outputFile, stale >>

loadCookies ==
    /\ pc = "loadCookies"
    /\ cookieJar' = fromJSON(cookieFile, cookieJar)
    /\ pc' = "hasValidSession"
    /\ UNCHANGED << runs, now, cookieFile, outputFile, loginPage, authRes,
                    usersResponse, browser, browserCookies, settingsPage,
                    allData, exitCode, events, reused, fileAtStart,
                    outputAtStart, jarAtAuth, coldRef, stale >>

\* hasValidSession() and the branch of main on its answer
hasValidSession ==
    /\ pc = "hasValidSession"
    /\ LET valid == SessionCookies(getCookies(cookieJar, now)) # {}
       IN /\ reused' = valid
          /\ pc' = IF NeedsLogin(valid) THEN "authenticate" ELSE "fetchData"
    /\ cookieJar' = ExpireSweep(cookieJar, now)
    /\ UNCHANGED << runs, now, cookieFile, outputFile, loginPage, authRes,
                    usersResponse, browser, browserCookies, settingsPage,
                    allData, exitCode, events, fileAtStart, outputAtStart,
                    jarAtAuth, coldRef, stale >>

\* authenticate(), step 1: GET the login page and read the nonce
authenticate_getLoginPage ==
    /\ pc = "authenticate"
    /\ jarAtAuth' = cookieJar
    /\ events' = Append(events, "loginGET")
    /\ \/ \* fetch rejects
          /\ loginPage' = "fetch_error"
          /\ Catch
       \/ \E page \in LoginPages :
            /\ loginPage' = page
            /\ IF NonceIsString(page)
               THEN pc' = "postLogin" /\ UNCHANGED exitCode
               ELSE Catch
    /\ UNCHANGED << runs, now, cookieFile, outputFile, cookieJar, authRes,
                    usersResponse, browser, browserCookies, settingsPage,
                    allData, reused, fileAtStart, outputAtStart, coldRef,
                    stale >>

\* authenticate(), step 2: POST the credentials, keep the cookies
authenticate_postLogin ==
    /\ pc = "postLogin"
    /\ events' = Append(events, "loginPOST")
    /\ \/ \* fetch rejects
          /\ authRes' = [status |-> -1, headers |-> <<>>]
          /\ Catch
          /\ UNCHANGED cookieJar
       \/ \E status \in LoginStatuses, hs \in SetCookieLists :
            /\ authRes' = [status |-> status, headers |-> hs]
            /\ IF ~LoginAccepted(status, hs)
               THEN Catch /\ UNCHANGED cookieJar
               ELSE LET r == SetCookies(cookieJar, hs, now)
                    IN /\ cookieJar' = r.jar
                       /\ IF r.threw
                          THEN Catch
                          ELSE pc' = "saveCookies" /\ UNCHANGED exitCode
    /\ UNCHANGED << runs, now, cookieFile, outputFile, loginPage,
                    usersResponse, browser, browserCookies, settingsPage,
                    allData, reused, fileAtStart, outputAtStart, jarAtAuth,
                    coldRef, stale >>

saveCookies ==
    /\ pc = "saveCookies"
    /\ \/ \* writeFile rejects before it opened the file
          /\ Catch
          /\ UNCHANGED << cookieFile, events, stale >>
       \/ /\ cookieFile' = toJSON(cookieJar)
          /\ events' = Append(events, "sessionWrite")
          /\ stale' = FALSE
          /\ pc' = "fetchData"
          /\ UNCHANGED exitCode
    /\ UNCHANGED << runs, now, outputFile, cookieJar, loginPage, authRes,
                    usersResponse, browser, browserCookies, settingsPage,
                    allData, reused, fileAtStart, outputAtStart, jarAtAuth,
                    coldRef >>

\* fetchData(), the users request: the Cookie header is built from the jar,
\* the response is tested and parsed
fetchData_users ==
    /\ pc = "fetchData"
    /\ events' = Append(events, "usersPOST")
    /\ cookieJar' = ExpireSweep(cookieJar, now)
    /\ \/ \* fetch rejects
          /\ usersResponse' = [NoUsersResponse EXCEPT !.status = -1]
          /\ Catch
          /\ UNCHANGED stale
       \/ \E status \in UsersStatuses, body \in UsersBodies :
            /\ usersResponse' = [status |-> status, body |-> body]
            /\ stale' = IF reused /\ ~(status >= 200 /\ status <= 299)
                        THEN TRUE ELSE stale
            /\ IF ResponseOk(status) /\ body.kind # "malformed"
               THEN pc' = "launch" /\ UNCHANGED exitCode
               ELSE Catch
    /\ UNCHANGED << runs, now, cookieFile, outputFile, loginPage, authRes,
                    browser, browserCookies, settingsPage, allData, reused,
                    fileAtStart, outputAtStart, jarAtAuth, coldRef >>

\* puppeteer.launch(), browser.newPage(), the conversion of the cookies and
\* the loop of page.setCookie
fetchData_launch ==
    /\ pc = "launch"
    /\ \/ \* launch rejects: no browser
          /\ Catch
          /\ UNCHANGED << browser, browserCookies, events >>
       \/ /\ browser' = "open"
          /\ events' = Append(events, "launch")
          /\ LET cs == {ToPuppeteer(c) : c \in getCookies(cookieJar, now)}
             IN \/ /\ browserCookies' = cs
                   /\ pc' = "goto"
                   /\ UNCHANGED exitCode
                \/ \* a page.setCookie rejects, after those of set were set
                   \E set \in (SUBSET cs) \ {cs} :
                      /\ browserCookies' = set
                      /\ Catch
    /\ UNCHANGED << runs, now, cookieFile, outputFile, cookieJar, loginPage,
                    authRes, usersResponse, settingsPage, allData, reused,
                    fileAtStart, outputAtStart, jarAtAuth, coldRef, stale >>

\* page.goto(settingsPageUrl), page.waitForSelector, page.content()
fetchData_goto ==
    /\ pc = "goto"
    /\ events' = Append(events, "goto")
    /\ \/ \* the navigation fails
          /\ Catch
          /\ UNCHANGED settingsPage
       \/ \E page \in SettingsPages :
            /\ settingsPage' = page
            /\ IF FormRendered(page)
               THEN pc' = "close" /\ UNCHANGED exitCode
               ELSE \* TimeoutError; the browser stays open
                    Catch
    /\ UNCHANGED << runs, now, cookieFile, outputFile, cookieJar, loginPage,
                    authRes, usersResponse, browser, browserCookies, allData,
                    reused, fileAtStart, outputAtStart, jarAtAuth, coldRef,
                    stale >>

\* browser.close()
fetchData_close ==
    /\ pc = "close"
    /\ browser' = "closed"
    /\ events' = Append(events, "close")
    /\ pc' = "scrape"
    /\ UNCHANGED << runs, now, cookieFile, outputFile, cookieJar, loginPage,
                    authRes, usersResponse, browserCookies, settingsPage,
                    allData, exitCode, reused, fileAtStart, outputAtStart,
                    jarAtAuth, coldRef, stale >>

\* the scrape of the markup and  return [...userList, currentUser]:
\* the spread of a value that is no array throws
fetchData_return ==
    /\ pc = "scrape"
    /\ IF usersResponse.body.kind = "array"
       THEN /\ allData' = Merge(usersResponse.body.list, CurrentUser(settingsPage))
            /\ events' = Append(events, "return")
            /\ pc' = "writeOutput"
            /\ UNCHANGED exitCode
       ELSE /\ Catch
            /\ UNCHANGED << allData, events >>
    /\ UNCHANGED << runs, now, cookieFile, outputFile, cookieJar, loginPage,
                    authRes, usersResponse, browser, browserCookies,
                    settingsPage, reused, fileAtStart, outputAtStart,
                    jarAtAuth, coldRef, stale >>

\* writeFile(outputFilePath, ...), the two console.log, and main returns
main_writeOutput ==
    /\ pc = "writeOutput"
    /\ \/ \* writeFile rejects before it opened the file
          /\ Catch
          /\ UNCHANGED << outputFile, events >>
       \/ /\ outputFile' = Stringify(allData)
          /\ events' = Append(events, "outputWrite")
          /\ pc' = "exited"
          /\ exitCode' = ExitCode(FALSE)
    /\ UNCHANGED << runs, now, cookieFile, cookieJar, loginPage, authRes,
                    usersResponse, browser, browserCookies, settingsPage,
                    allData, reused, fileAtStart, outputAtStart, jarAtAuth,
                    coldRef, stale >>

Next ==
    \/ main_start
    \/ loadCookies
    \/ hasValidSession
    \/ authenticate_getLoginPage
    \/ authenticate_postLogin
    \/ saveCookies
    \/ fetchData_users
    \/ fetchData_launch
    \/ fetchData_goto
    \/ fetchData_close
    \/ fetchData_return
    \/ main_writeOutput

Spec == Init /\ [][Next]_vars

\* ----------------------------------------------------------------- claims
\* What the claims speak of, stated without the operators of the model
\* above: the names that contain "session", read off the names themselves.
NamesWithSession == {NameSession, NameConnectSid}

Done == pc = "exited"
Has(e) == \E i \in DOMAIN events : events[i] = e
Count(e) == Cardinality({i \in DOMAIN events : events[i] = e})
\* every e2 of the run has an e1 before it
Precedes(e1, e2) ==
    \A j \in DOMAIN events :
        events[j] = e2 => \E i \in 1..(j - 1) : events[i] = e1
NoLoginRequest == ~Has("loginGET") /\ ~Has("loginPOST")

\* the run started with a session file that names a session cookie
FileNamedSession ==
    /\ fileAtStart.kind = "jar"
    /\ \E c \in fileAtStart.cookies : c.key \in NamesWithSession

\* ... one that is sent to the domain root and has not expired at the
\* time of the run
FileLiveSession ==
    /\ fileAtStart.kind = "jar"
    /\ \E c \in fileAtStart.cookies :
         /\ c.key \in NamesWithSession
         /\ c.path = "/"
         /\ c.expires.inf \/ c.expires.at > now

InRun == pc \notin {"idle", "loadCookies", "hasValidSession"}

NonceMissing == loginPage \in {"no_input", "no_value_attr"}
LoginAnswered == authRes.status > 0
LoginRefused ==
    LoginAnswered /\ ~(authRes.status = 302 /\ authRes.headers # <<>>)
UsersAnswered == usersResponse.status > 0
UsersRefused == UsersAnswered /\ usersResponse.status \notin 200..299
UsersMalformed == UsersAnswered /\ usersResponse.body.kind = "malformed"
FormNeverRendered == Has("goto") /\ settingsPage \in {PageEmpty, PageOtherForm}

\* C1: a run that starts with no session file sends the login GET, then the
\* login POST, then writes the session file, all before its users request.
C1_AuthBeforeFetch ==
    fileAtStart = NoFile =>
        /\ Precedes("loginGET", "loginPOST")
        /\ Precedes("loginPOST", "sessionWrite")
        /\ Precedes("sessionWrite", "usersPOST")
C1_Witness == fileAtStart = NoFile /\ Has("usersPOST") /\ runs = 1

\* C2 as claimed: a run that starts with a session file holding a cookie
\* whose name contains "session" sends no request to the login URL.
C2_Original == (InRun /\ FileNamedSession) => NoLoginRequest

\* C2 as amended: a run that starts with a session file holding a cookie whose
\* name contains "session", that has not expired when the run starts and
\* whose path matches the domain root, sends no request to the login URL.
C2_SkipsLogin ==
    (InRun /\ FileLiveSession) => (reused /\ NoLoginRequest)
C2_Witness ==
    /\ FileLiveSession
    /\ Cookie(NameConnectSid, "/", At(1)) \in fileAtStart.cookies
    /\ Has("usersPOST")

\* what C3 promises of a failed authenticate()
C3_FailedFast ==
    /\ Done
    /\ exitCode = 1
    /\ cookieJar = jarAtAuth
    /\ ~Has("sessionWrite")
    /\ ~Has("outputWrite")
    /\ cookieFile = fileAtStart
    /\ outputFile = outputAtStart

\* C3 as claimed: authenticate() fails fast when the login page has no nonce
\* or the login answer is not a 302 with at least one session cookie.
C3_Original ==
    \/ NonceMissing
    \/ /\ LoginAnswered
       /\ ~( /\ authRes.status = 302
             /\ \E i \in DOMAIN authRes.headers :
                   authRes.headers[i].key \in NamesWithSession )
    => C3_FailedFast

\* C3 as amended: authenticate() fails fast (an error, the jar as before the
\* call, no session file and no output file written) when the login page has
\* no nonce or the login answer is not a 302 with at least one Set-Cookie
\* header.
C3_FailsFast == (NonceMissing \/ LoginRefused) => C3_FailedFast
C3_Witness == Done /\ authRes.status = 302 /\ authRes.headers = <<>>

\* C4: the written output holds the n records of the users list in their
\* order, then the scraped current user: n + 1 records, for every n >= 0.
C4_OutputIsListPlusCurrent ==
    Has("outputWrite") =>
        LET list == usersResponse.body.list
            out == outputFile.data
            n == Len(list)
        IN /\ outputFile.kind = "json"
           /\ Len(out) = n + 1
           /\ \A i \in 1..n : out[i] = list[i]
           /\ out[n + 1] = CurrentUser(settingsPage)
C4_Witness ==
    /\ Has("outputWrite")
    /\ usersResponse.body.list = <<UserA, UserJohn>>
    /\ settingsPage = PageJohn
    /\ outputFile.data = <<UserA, UserJohn, UserJohn>>

\* C5: a run in which a step failed (no nonce, login refused, users answer
\* not 2xx or no JSON, settings form never rendered) does not write the
\* output file: the file of an earlier run is as it was.
C5_NoOutputOnFailure ==
    (NonceMissing \/ LoginRefused \/ UsersRefused \/ UsersMalformed
        \/ FormNeverRendered)
    => /\ Done
       /\ ~Has("outputWrite")
       /\ outputFile = outputAtStart
C5_Witness ==
    /\ Done
    /\ FormNeverRendered
    /\ runs = 2
    /\ outputFile.kind = "json"
    /\ Len(outputFile.data) = 3

\* C6: a warm run (valid session file at its start) that succeeds on the
\* upstream data of the cold run that wrote the output file sends no login
\* request and writes the same output.
C6_WarmEqualsCold ==
    ( /\ Done
      /\ exitCode = 0
      /\ FileLiveSession
      /\ coldRef.set
      /\ coldRef.list = usersResponse.body.list
      /\ coldRef.page = settingsPage )
    => /\ NoLoginRequest
       /\ Has("outputWrite")
       /\ outputFile = outputAtStart
C6_Witness ==
    /\ Done
    /\ exitCode = 0
    /\ FileLiveSession
    /\ fileAtStart # NoFile
    /\ coldRef.set
    /\ coldRef.list = usersResponse.body.list
    /\ coldRef.page = settingsPage
    /\ Len(coldRef.list) = 2
    /\ NoLoginRequest

\* C7: a run ends with exit code 0, every step having succeeded and the
\* output file written in this run, or with exit code 1 and the output file
\* not written in this run; it has no exit code before it ends.
C7_ExitCodes ==
    /\ ~Done => exitCode = -1
    /\ Done =>
         \/ /\ exitCode = 0
            /\ Has("outputWrite")
            /\ outputFile = Stringify(allData)
            /\ ~(NonceMissing \/ LoginRefused \/ UsersRefused
                    \/ UsersMalformed \/ FormNeverRendered)
         \/ /\ exitCode = 1
            /\ ~Has("outputWrite")
            /\ outputFile = outputAtStart
C7_Witness == Done /\ exitCode = 1 /\ Has("close")

\* the number of items README.md and the comment of fetchData promise
ReadmeItemCount == 10

\* C8 as claimed: a successful run leaves exactly 10 items in users.json.
C8_ExactlyTenItems ==
    (Done /\ exitCode = 0) => Len(outputFile.data) = ReadmeItemCount

\* C9: a run that writes the output launched the browser once, navigated
\* once, with every cookie of the session set before, and closed the browser
\* before fetchData returned; a run whose users request failed never
\* launches the browser.
C9_BrowserOnce ==
    /\ Has("goto") =>
         browserCookies =
            { [name |-> c.key, path |-> c.path,
               expires |-> IF c.expires.inf THEN -1 ELSE c.expires.at] :
              c \in {d \in cookieJar :
                       d.path = "/" /\ (d.expires.inf \/ d.expires.at > now)} }
    /\ Has("outputWrite") =>
         /\ Count("launch") = 1
         /\ Count("goto") = 1
         /\ Count("close") = 1
         /\ Precedes("launch", "goto")
         /\ Precedes("goto", "close")
         /\ Precedes("close", "return")
         /\ Precedes("return", "outputWrite")
         /\ browser = "closed"
    /\ (UsersRefused \/ UsersMalformed \/ usersResponse.status = -1) =>
         ~Has("launch") /\ browser = "none"
C9_Witness ==
    /\ Has("outputWrite")
    /\ Cardinality(browserCookies) = 1
    /\ \E c \in browserCookies : c.expires = 1

\* C10 as claimed: once a session cookie the server refuses is on disk, no
\* run authenticates again.
C10_Original == stale => NoLoginRequest

\* C10 as amended: the session file is written only in a run whose fresh
\* login succeeded; a run that reuses a session cookie the users endpoint
\* refuses exits with an error and leaves the session file as it was; and a
\* later run started from that file skips authentication for as long as the
\* session cookie in it has not expired.
C10_StaleSessionKept ==
    /\ (Has("sessionWrite") \/ cookieFile # fileAtStart) =>
         /\ ~reused
         /\ authRes.status = 302
         /\ authRes.headers # <<>>
         /\ Precedes("loginPOST", "sessionWrite")
         /\ cookieFile = toJSON(cookieJar)
    /\ (InRun /\ FileLiveSession /\ UsersRefused) =>
         /\ Done
         /\ exitCode = 1
         /\ cookieFile = fileAtStart
         /\ stale
    /\ (InRun /\ stale /\ FileLiveSession) => NoLoginRequest
C10_Witness ==
    /\ runs = 2
    /\ stale
    /\ FileLiveSession
    /\ UsersRefused
    /\ Done

====
